---- MODULE Spec2Model ----
(***************************************************************************)
(* Model of pyfacebook's FacebookPage resource (page.py) together with the *)
(* two client helpers it drives: the paginated connection fetcher          *)
(* (get_full_connections) and the field normaliser (enf_comma_separated).  *)
(*                                                                         *)
(* One behaviour is one call of a public operation against one server.     *)
(* Optional values are sequences: <<>> is None, <<v>> is the value v.      *)
(* A field value is None, <<"str", chars>>, <<"list", elems>> or           *)
(* <<"tuple", elems>>; a string is a sequence of one-character strings.    *)
(***************************************************************************)
EXTENDS Integers, Sequences, FiniteSets, TLC

\* ---------------------------------------------------------------- bounds
MaxPages == 2
MaxPageSize == 5
MaxCount == 3
MaxFields == 3

\* ------------------------------------------------------ program constants
DefaultCount == 10
DefaultLimit == 10

None == <<>>
Some(v) == <<v>>

VARIABLES
    pages,      \* the connection the call reads: the server's chain of pages
    pc,         \* "idle", "fetch", "fetched", "returned", "raised"
    given,      \* the arguments as the caller wrote them (Omitted kept)
    call,       \* the keyword arguments handed to the client
    requests,   \* the requests issued to the transport, in order
    cursor,     \* the page the next request addresses
    data_set,   \* the accumulator of get_full_connections
    paging,     \* the paging block get_full_connections holds
    ret         \* what the public operation returned or raised

vars == <<pages, pc, given, call, requests, cursor, data_set, paging, ret>>

\* ------------------------------------------------------------- strings
Chars == {"a", "b", ","}
Names == {<<"a">>, <<"b">>}

RECURSIVE SeqsUpTo(_, _)
SeqsUpTo(S, n) ==
    IF n = 0 THEN {<<>>}
    ELSE LET shorter == SeqsUpTo(S, n - 1)
         IN shorter \cup {Append(s, x) : s \in shorter, x \in S}

Str(s) == <<"str", s>>
List(l) == <<"list", l>>
Tuple(l) == <<"tuple", l>>

IsStr(v) == v # None /\ v[1] = "str"
IsSeqValue(v) == v # None /\ v[1] \in {"list", "tuple"}

\* ",".join(elems)
RECURSIVE Join(_)
Join(elems) ==
    IF Len(elems) = 0 THEN <<>>
    ELSE IF Len(elems) = 1 THEN elems[1]
    ELSE elems[1] \o <<",">> \o Join(Tail(elems))

enf_comma_separated(field, value) ==
    IF value = None THEN None
    ELSE IF IsStr(value) THEN value
    ELSE Str(Join(value[2]))

\* const.PAGE_PUBLIC_FIELDS, const.POST_PUBLIC_FIELDS,
\* const.POST_CONNECTIONS_SUMMERY_FIELDS: lists of field names
PAGE_PUBLIC_FIELDS == <<"list", << <<"i", "d">>, <<"n">> >> >>
POST_PUBLIC_FIELDS == <<"list", << <<"i", "d">>, <<"m">> >> >>
POST_CONNECTIONS_SUMMERY_FIELDS == <<"list", << <<"c">> >> >>

\* list + list
ListConcat(x, y) == <<"list", x[2] \o y[2]>>

\* -------------------------------------------------------------- server
\* Items are numbered 1, 2, 3, ... in page order.
RECURSIVE Offset(_, _)
Offset(sizes, i) == IF i <= 1 THEN 0 ELSE sizes[i - 1] + Offset(sizes, i - 1)

MkPages(sizes, lastNext) ==
    [i \in 1..Len(sizes) |->
        [data |-> [k \in 1..sizes[i] |-> Offset(sizes, i) + k],
         next |-> (i < Len(sizes)) \/ lastNext]]

\* A page is empty, holds one item, is one short of full, or is full.
PageSizes == {0, 1, MaxPageSize - 1, MaxPageSize}

Servers ==
    {MkPages(sizes, lastNext) :
        sizes \in UNION {[1..n -> PageSizes] : n \in 1..MaxPages},
        lastNext \in BOOLEAN}

\* The transport's answer to a request for page i. A cursor past the end of
\* the chain is exhausted: no items, no paging.next.
ServerPage(i) ==
    IF i <= Len(pages) THEN pages[i] ELSE [data |-> <<>>, next |-> FALSE]

\* data.get("paging") of page i
PagingOf(i) ==
    [cursors |-> i, next |-> IF ServerPage(i).next THEN Some(i + 1) ELSE None]

\* --------------------------------------------------------------- inputs
\* An argument the caller left out of the call.
Omitted == <<"omitted", "omitted">>

\* Python binds a parameter to its default when the argument is left out.
IsOmitted(arg) == Len(arg) = 2 /\ arg = Omitted
Bind(arg, default) == IF IsOmitted(arg) THEN default ELSE arg

\* Python truthiness of an Optional[str]
Truthy(v) == v # None /\ v[1] # ""

Ids == {None, Some(""), Some("X"), Some("Y")}
PageIds == {Some("X")}
Windows == {<<None, None>>, <<Some("s"), Some("u")>>}
FieldArgs ==
    {None}
        \cup {Str(s) : s \in SeqsUpTo(Chars, MaxFields)}
        \cup {List(l) : l \in SeqsUpTo(Names, MaxFields)}
        \cup {Tuple(l) : l \in SeqsUpTo(Names, MaxFields)}
InfoFieldArgs == {None, Str(<<"a", ",", "b">>), List(<< <<"a">>, <<"b">> >>)}
FeedFieldArgs == {None, List(<< <<"a">>, <<"b">> >>)}
CountArgs == {None} \cup {Some(n) : n \in 0..MaxCount}
LimitArgs == {None, Some(MaxPageSize)}
SourceArgs == {Omitted, Some("tagged")}

\* ----------------------------------------------------------- transport
Request(api, object_id, connection, fields, since, until, limit, page) ==
    [api |-> api, object_id |-> object_id, connection |-> connection,
     fields |-> fields, since |-> since, until |-> until, limit |-> limit,
     page |-> page]

Return(value, pg) == [kind |-> "return", error |-> "", value |-> value, paging |-> pg]
Raise(error) == [kind |-> "raise", error |-> error, value |-> None, paging |-> None]

\* Page.new_from_json_dict / Post.new_from_json_dict
new_from_json_dict(cls, data) == [cls |-> cls, json |-> data]

\* the ids a comma-separated string names
RECURSIVE Split(_)
Split(s) ==
    IF \A i \in 1..Len(s) : s[i] # "," THEN <<s>>
    ELSE LET i == CHOOSE j \in 1..Len(s) :
                    s[j] = "," /\ \A k \in 1..(j - 1) : s[k] # ","
         IN <<SubSeq(s, 1, i - 1)>> \o Split(SubSeq(s, i + 1, Len(s)))

Init ==
    /\ pages = <<>>
    /\ pc = "idle"
    /\ given = None
    /\ call = None
    /\ requests = <<>>
    /\ cursor = 1
    /\ data_set = <<>>
    /\ paging = None
    /\ ret = None


\* ------------------------------------------------------------- get_info
\* variant: username preferred over page_id
ResolveTarget_username_first(page_id, username) ==
    IF Truthy(username) THEN username
    ELSE IF Truthy(page_id) THEN page_id
    ELSE None

ResolveTarget(page_id, username) ==
    IF Truthy(page_id) THEN page_id
    ELSE IF Truthy(username) THEN username
    ELSE None

InfoFields(fields) == IF fields = None THEN PAGE_PUBLIC_FIELDS ELSE fields

get_info(page_id, username, fields, return_json, ok) ==
    LET target == ResolveTarget(page_id, username)
        req == Request("get_object", target, None,
                       enf_comma_separated("fields", InfoFields(fields)),
                       None, None, None, 0)
        data == [id |-> target]
    IN /\ pc = "idle"
       /\ call' = [op |-> "get_info"]
       /\ IF target = None
          THEN /\ requests' = requests
               /\ ret' = Raise("LibraryError")
               /\ pc' = "raised"
          ELSE /\ requests' = Append(requests, req)
               /\ IF ~ok
                  THEN ret' = Raise("RemoteRequestError") /\ pc' = "raised"
                  ELSE /\ ret' = Return(IF return_json THEN data
                                        ELSE new_from_json_dict("Page", data), None)
                       /\ pc' = "returned"
       /\ UNCHANGED <<pages, cursor, data_set, paging>>

CallGetInfo ==
    /\ pc = "idle"
    /\ \E page_id \in Ids \cup {Omitted}, username \in Ids \cup {Omitted},
       fields \in InfoFieldArgs \cup {Omitted}, return_json \in BOOLEAN, ok \in BOOLEAN :
        /\ given' = [op |-> "get_info", page_id |-> page_id, username |-> username,
                     fields |-> fields, return_json |-> return_json]
        /\ get_info(Bind(page_id, None), Bind(username, None), Bind(fields, None),
                    return_json, ok)

\* ------------------------------------------------------------ get_batch
\* get_objects answers with one record per id the ids string names
BatchData(ids) ==
    LET keys == IF IsStr(ids) THEN Split(ids[2]) ELSE <<>>
    IN [k \in {keys[i] : i \in 1..Len(keys)} |-> [id |-> k]]

\* variant: ids handed to the client as given
BatchIds_raw(ids) == ids

BatchIds(ids) == enf_comma_separated("ids", ids)

get_batch(ids, fields, return_json, ok) ==
    LET ids1 == BatchIds(ids)
        req == Request("get_objects", ids1, None,
                       enf_comma_separated("fields", InfoFields(fields)),
                       None, None, None, 0)
        data == BatchData(ids1)
    IN /\ pc = "idle"
       /\ call' = [op |-> "get_batch"]
       /\ requests' = Append(requests, req)
       /\ IF ~ok
          THEN ret' = Raise("RemoteRequestError") /\ pc' = "raised"
          ELSE /\ ret' = Return(IF return_json THEN data
                                ELSE [k \in DOMAIN data |->
                                        new_from_json_dict("Page", data[k])], None)
               /\ pc' = "returned"
       /\ UNCHANGED <<pages, cursor, data_set, paging>>

CallGetBatch ==
    /\ pc = "idle"
    /\ \E ids \in FieldArgs \ {None}, fields \in InfoFieldArgs \cup {Omitted},
       return_json \in BOOLEAN, ok \in BOOLEAN :
        /\ given' = [op |-> "get_batch", ids |-> ids, fields |-> fields,
                     return_json |-> return_json]
        /\ get_batch(ids, Bind(fields, None), return_json, ok)

\* ------------------------------------------- get_full_connections (client)
\* One pass of the fetch loop: request the page at the cursor, append its
\* items, then decide whether to stop.
ConnectionRequest(kw, page) ==
    Request("get_connection", kw.object_id, kw.connection, kw.fields,
            kw.since, kw.until, kw.limit, page)

Accumulate(acc, page) == acc \o page.data

CountReached(count, acc) == count # None /\ Len(acc) >= count[1]

Truncate(count, acc) == SubSeq(acc, 1, count[1])

\* variant: an empty page does not stop the loop
StopAfter_noempty(count, acc, page) ==
    \/ CountReached(count, acc)
    \/ ~page.next

\* stop after this page?
StopAfter(count, acc, page) ==
    \/ CountReached(count, acc)
    \/ Len(page.data) = 0
    \/ ~page.next

\* variant: get_feed swallows the error and returns what was accumulated
FeedError_partial(error, feeds, pg) == Return(feeds, pg)

\* get_feed has no handler around the client call: what the client raises
\* is what get_feed's caller sees.
FeedError(error, feeds, pg) == Raise(error)

FetchPage ==
    LET page == ServerPage(cursor)
        acc == Accumulate(data_set, page)
    IN /\ pc = "fetch"
       /\ requests' = Append(requests, ConnectionRequest(call, cursor))
       /\ paging' = Some(PagingOf(cursor))
       /\ data_set' = IF CountReached(call.count, acc)
                      THEN Truncate(call.count, acc) ELSE acc
       /\ IF StopAfter(call.count, acc, page)
          THEN pc' = "fetched" /\ cursor' = cursor
          ELSE pc' = "fetch" /\ cursor' = cursor + 1
       /\ UNCHANGED <<pages, given, call, ret>>

\* The transport fails on the request: the error leaves get_full_connections
\* and get_feed, neither of which catches it.
FetchPageFail ==
    /\ pc = "fetch"
    /\ requests' = Append(requests, ConnectionRequest(call, cursor))
    /\ ret' = FeedError("RemoteRequestError", data_set, paging)
    /\ pc' = "raised"
    /\ UNCHANGED <<pages, given, call, cursor, data_set, paging>>

\* ------------------------------------------------------------- get_feed
FeedFields(fields) ==
    IF fields = None
    THEN ListConcat(POST_PUBLIC_FIELDS, POST_CONNECTIONS_SUMMERY_FIELDS)
    ELSE fields

\* variant: count not forwarded
FeedKwargs_nocount(page_id, fields, since, until, count, limit, source) ==
    [object_id |-> page_id, connection |-> source, count |-> None, limit |-> limit,
     fields |-> enf_comma_separated("fields", FeedFields(fields)),
     since |-> since, until |-> until]

\* variant: count and limit exchanged
FeedKwargs_swapped(page_id, fields, since, until, count, limit, source) ==
    [object_id |-> page_id, connection |-> source, count |-> limit, limit |-> count,
     fields |-> enf_comma_separated("fields", FeedFields(fields)),
     since |-> since, until |-> until]

\* variant: the signature's default count forwarded instead of the argument
FeedKwargs_fixedcount(page_id, fields, since, until, count, limit, source) ==
    [object_id |-> page_id, connection |-> source, count |-> Some(DefaultCount),
     limit |-> limit,
     fields |-> enf_comma_separated("fields", FeedFields(fields)),
     since |-> since, until |-> until]

\* variant: limit forwarded as count
FeedKwargs_limit_as_count(page_id, fields, since, until, count, limit, source) ==
    [object_id |-> page_id, connection |-> source, count |-> limit, limit |-> limit,
     fields |-> enf_comma_separated("fields", FeedFields(fields)),
     since |-> since, until |-> until]

FeedKwargs(page_id, fields, since, until, count, limit, source) ==
    [object_id |-> page_id,
     connection |-> source,
     count |-> count,
     limit |-> limit,
     fields |-> enf_comma_separated("fields", FeedFields(fields)),
     since |-> since,
     until |-> until]

get_feed(page_id, fields, since, until, count, limit, source, return_json) ==
    /\ pc = "idle"
    /\ call' = FeedKwargs(page_id, fields, since, until, count, limit, source)
               @@ [return_json |-> return_json]
    /\ pc' = "fetch"
    /\ pages' \in Servers
    /\ UNCHANGED <<requests, cursor, data_set, paging, ret>>

\* variant: the typed branch loses the paging block
FeedResult_typed_nopaging(feeds, pg, return_json) ==
    IF return_json
    THEN Return(feeds, pg)
    ELSE Return([i \in 1..Len(feeds) |-> new_from_json_dict("Post", feeds[i])], None)

FeedResult(feeds, pg, return_json) ==
    IF return_json
    THEN Return(feeds, pg)
    ELSE Return([i \in 1..Len(feeds) |-> new_from_json_dict("Post", feeds[i])], pg)

get_feed_return ==
    /\ pc = "fetched"
    /\ ret' = FeedResult(data_set, paging, call.return_json)
    /\ pc' = "returned"
    /\ UNCHANGED <<pages, given, call, requests, cursor, data_set, paging>>

get_posts(page_id, fields, since, until, count, limit, return_json) ==
    get_feed(page_id, fields, since, until, count, limit, "posts", return_json)

get_published_posts(page_id, fields, since, until, count, limit, return_json) ==
    get_feed(page_id, fields, since, until, count, limit, "published_posts", return_json)

get_tagged_posts(page_id, fields, since, until, count, limit, return_json) ==
    get_feed(page_id, fields, since, until, count, limit, "tagged", return_json)

FeedGiven(op, page_id, fields, since, until, count, limit, source, return_json) ==
    [op |-> op, page_id |-> page_id, fields |-> fields, since |-> since,
     until |-> until, count |-> count, limit |-> limit, source |-> source,
     return_json |-> return_json]

CallGetFeed ==
    /\ pc = "idle"
    /\ \E page_id \in PageIds, fields \in FeedFieldArgs, w \in Windows,
       count \in CountArgs \cup {Omitted}, limit \in LimitArgs \cup {Omitted},
       source \in SourceArgs, return_json \in BOOLEAN :
        /\ given' = FeedGiven("get_feed", page_id, fields, w[1], w[2], count,
                              limit, source, return_json)
        /\ get_feed(page_id[1], fields, w[1], w[2],
                    Bind(count, Some(DefaultCount)), Bind(limit, Some(DefaultLimit)),
                    Bind(source, Some("feed"))[1], return_json)

CallGetPosts ==
    /\ pc = "idle"
    /\ \E page_id \in PageIds, fields \in FeedFieldArgs, w \in Windows,
       count \in CountArgs \cup {Omitted}, limit \in LimitArgs \cup {Omitted},
       return_json \in BOOLEAN :
        /\ given' = FeedGiven("get_posts", page_id, fields, w[1], w[2], count,
                              limit, Omitted, return_json)
        /\ get_posts(page_id[1], fields, w[1], w[2],
                     Bind(count, Some(DefaultCount)), Bind(limit, Some(DefaultLimit)),
                     return_json)

CallGetPublishedPosts ==
    /\ pc = "idle"
    /\ \E page_id \in PageIds, fields \in FeedFieldArgs, w \in Windows,
       count \in CountArgs \cup {Omitted}, limit \in LimitArgs \cup {Omitted},
       return_json \in BOOLEAN :
        /\ given' = FeedGiven("get_published_posts", page_id, fields, w[1], w[2],
                              count, limit, Omitted, return_json)
        /\ get_published_posts(page_id[1], fields, w[1], w[2],
                               Bind(count, Some(DefaultCount)),
                               Bind(limit, Some(DefaultLimit)), return_json)

CallGetTaggedPosts ==
    /\ pc = "idle"
    /\ \E page_id \in PageIds, fields \in FeedFieldArgs, w \in Windows,
       count \in CountArgs \cup {Omitted}, limit \in LimitArgs \cup {Omitted},
       return_json \in BOOLEAN :
        /\ given' = FeedGiven("get_tagged_posts", page_id, fields, w[1], w[2],
                              count, limit, Omitted, return_json)
        /\ get_tagged_posts(page_id[1], fields, w[1], w[2],
                            Bind(count, Some(DefaultCount)),
                            Bind(limit, Some(DefaultLimit)), return_json)

Next ==
    \/ CallGetInfo
    \/ CallGetBatch
    \/ CallGetFeed
    \/ CallGetPosts
    \/ CallGetPublishedPosts
    \/ CallGetTaggedPosts
    \/ FetchPage
    \/ FetchPageFail
    \/ get_feed_return

Spec == Init /\ [][Next]_vars

\* The fetch loop is synchronous: once started it keeps running until it
\* returns or raises.
FairSpec == Spec /\ WF_vars(FetchPage \/ FetchPageFail) /\ WF_vars(get_feed_return)

\* ================================================================ properties
FeedOps == {"get_feed", "get_posts", "get_published_posts", "get_tagged_posts"}

\* a feed call has been made
InFeed == pc # "idle" /\ given.op \in FeedOps

\* the count and limit the caller asked for, after Python's default binding
AskedCount == Bind(given.count, Some(DefaultCount))

\* the raw records behind a returned feed
RawItems(r) ==
    IF given.return_json THEN r.value
    ELSE [i \in 1..Len(r.value) |-> r.value[i].json]

IsEmptyPage(i) == Len(ServerPage(i).data) = 0

\* the first page that ends the data: it is empty or has no next cursor
RECURSIVE EndPage(_)
EndPage(i) ==
    IF IsEmptyPage(i) \/ ~ServerPage(i).next THEN i ELSE EndPage(i + 1)
EndOfData == EndPage(1)

\* the items of pages 1..n in page order
RECURSIVE ItemsUpTo(_)
ItemsUpTo(n) == IF n = 0 THEN <<>> ELSE ItemsUpTo(n - 1) \o ServerPage(n).data

\* the items available: those of the pages up to the end of the data
Available == ItemsUpTo(EndOfData)

Prefix(seq, n) == [i \in 1..n |-> seq[i]]

\* C1: with count = N below the number of available items, the fetch
\* returns exactly the first N items of the page-by-page sequence, in order;
\* with any count = N it returns at most N items.
C1_CountTruncates ==
    (InFeed /\ pc = "returned" /\ AskedCount # None) =>
        /\ Len(ret.value) <= AskedCount[1]
        /\ AskedCount[1] < Len(Available) =>
              /\ Len(ret.value) = AskedCount[1]
              /\ RawItems(ret) = Prefix(Available, AskedCount[1])

C1_Witness ==
    /\ InFeed /\ pc = "returned"
    /\ AskedCount = Some(3)
    /\ Len(Available) > 3
    /\ Len(requests) = 2
    /\ RawItems(ret) = <<1, 2, 3>>

\* C2: with count = None the fetch returns every item of every page up to
\* the end of the data, in page order, and the page it stops on is the first
\* one that is empty or has no next cursor.
C2_FetchAll ==
    (InFeed /\ pc \in {"fetched", "returned"} /\ AskedCount = None) =>
        /\ Len(requests) = EndOfData
        /\ requests[Len(requests)].page = EndOfData
        /\ data_set = Available
        /\ pc = "returned" => RawItems(ret) = Available

C2_Witness ==
    /\ InFeed /\ pc = "returned"
    /\ AskedCount = None
    /\ Len(requests) = 2
    /\ ~IsEmptyPage(2)
    /\ ServerPage(1).next /\ ~ServerPage(2).next
    /\ Len(RawItems(ret)) = Len(pages[1].data) + Len(pages[2].data)

\* C3: an empty page is the last page a fetch requests: once a request has
\* been answered with an empty item list, the fetch is over and no request
\* follows it, whatever its next cursor and the count say.
C3_EmptyPageStops ==
    InFeed =>
        \A i \in 1..Len(requests) :
            IsEmptyPage(requests[i].page) => (i = Len(requests) /\ pc # "fetch")

C3_Witness ==
    /\ InFeed /\ pc = "returned"
    /\ IsEmptyPage(cursor)
    /\ ServerPage(cursor).next
    /\ cursor < Len(pages)
    /\ ~IsEmptyPage(cursor + 1)
    /\ Len(requests) = cursor
    /\ AskedCount # None
    /\ Len(ret.value) < AskedCount[1]

\* C4: get_info asks the transport for page_id when page_id is present,
\* otherwise for username when username is present, and otherwise raises
\* LibraryError having issued no request.
C4_Resolution ==
    (pc # "idle" /\ given.op = "get_info") =>
        LET page_id == Bind(given.page_id, None)
            username == Bind(given.username, None)
        IN /\ Truthy(page_id) =>
                (Len(requests) = 1 /\ requests[1].object_id = page_id)
           /\ (~Truthy(page_id) /\ Truthy(username)) =>
                (Len(requests) = 1 /\ requests[1].object_id = username)
           /\ (~Truthy(page_id) /\ ~Truthy(username)) =>
                (requests = <<>> /\ pc = "raised" /\ ret.error = "LibraryError")

C4_Witness ==
    /\ pc = "returned" /\ given.op = "get_info"
    /\ given.page_id = Some("X") /\ given.username = Some("Y")
    /\ requests[1].object_id = Some("X")

\* the first page after which the fetch loop must stop, for a count
RECURSIVE StopPage(_, _)
StopPage(count, i) ==
    IF \/ (count # None /\ Len(ItemsUpTo(i)) >= count[1])
       \/ IsEmptyPage(i)
       \/ ~ServerPage(i).next
    THEN i ELSE StopPage(count, i + 1)

IsTestConnection ==
    /\ Len(pages) = 2
    /\ Len(pages[1].data) = 5 /\ Len(pages[2].data) = 4
    /\ ~pages[2].next

\* C5: a finished fetch has issued one request per page up to the page that
\* met a stop condition and none after it; on the two-page connection of 5
\* and 4 items, count = 3 takes one request and count = None takes two
\* requests and returns 9 items.
C5_RequestCount ==
    (InFeed /\ pc \in {"fetched", "returned"}) =>
        /\ Len(requests) = StopPage(AskedCount, 1)
        /\ \A i \in 1..Len(requests) : requests[i].page = i
        /\ (IsTestConnection /\ AskedCount = Some(3)) =>
              (Len(requests) = 1 /\ Len(data_set) = 3)
        /\ (IsTestConnection /\ AskedCount = None) =>
              (Len(requests) = 2 /\ Len(data_set) = 9)

C5_Witness ==
    /\ InFeed /\ pc = "returned"
    /\ IsTestConnection
    /\ AskedCount = Some(3)
    /\ Len(requests) = 1
    /\ RawItems(ret) = <<1, 2, 3>>

\* C6: a list or tuple of ids reaches the transport as its elements joined
\* by commas, in input order and with duplicates kept; a string reaches it
\* unchanged; normalising twice equals normalising once, so the joined
\* string and the list give the same request parameter. The fields
\* parameter of every request is normalised the same way.
C6_Normalize ==
    /\ (pc # "idle" /\ given.op = "get_batch") =>
          LET v == given.ids
              sent == requests[1].object_id
          IN /\ IsStr(sent)
             /\ IsStr(v) => sent = v
             /\ IsSeqValue(v) =>
                   /\ IF v[2] = <<>> THEN sent[2] = <<>> ELSE Split(sent[2]) = v[2]
                   /\ enf_comma_separated("ids", sent) = sent
             /\ enf_comma_separated("ids", enf_comma_separated("ids", v))
                   = enf_comma_separated("ids", v)
    /\ pc # "idle" =>
          \A i \in 1..Len(requests) :
              /\ IsStr(requests[i].fields)
              /\ (~IsOmitted(given.fields) /\ IsStr(given.fields)) =>
                    requests[i].fields = given.fields
              /\ (~IsOmitted(given.fields) /\ IsSeqValue(given.fields)) =>
                    Split(requests[i].fields[2]) = given.fields[2]

C6_Witness ==
    /\ pc = "returned" /\ given.op = "get_batch"
    /\ given.ids = List(<< <<"b">>, <<"a">>, <<"b">> >>)
    /\ requests[1].object_id = Str(<<"b", ",", "a", ",", "b">>)
    /\ IsSeqValue(given.fields)

\* C7: a transport failure on any page request ends the fetch with
\* RemoteRequestError and nothing else: no items and no paging block are
\* returned, no page was requested twice, and nothing happens afterwards.
C7_Raised ==
    (InFeed /\ pc = "raised") =>
        /\ ret = Raise("RemoteRequestError")
        /\ \A i \in 1..Len(requests) : requests[i].page = i

C7_AbortsEntirely == [](C7_Raised) /\ [][pc # "raised"]_vars

C7_Witness ==
    /\ InFeed /\ pc = "raised"
    /\ Len(requests) = 2
    /\ Len(data_set) > 0
    /\ ret.value = None

\* C8: a feed call that leaves limit out sends no page size.
C8_LimitDefaultsToNone ==
    (InFeed /\ IsOmitted(given.limit)) =>
        /\ call.limit = None
        /\ \A i \in 1..Len(requests) : requests[i].limit = None

\* C9: the paging block a feed call returns is that of the last page the
\* fetch requested, for typed and for raw results alike.
C9_LastPaging ==
    (InFeed /\ pc = "returned") =>
        ret.paging = Some(PagingOf(requests[Len(requests)].page))

C9_Witness ==
    /\ InFeed /\ pc = "returned"
    /\ ~given.return_json
    /\ Len(requests) = 2
    /\ AskedCount # None /\ Len(ret.value) = AskedCount[1]
    /\ ret.paging[1].cursors = 2
    /\ ret.paging[1].next # None

\* C10: every fetch ends; it never requests a page past the end of the
\* data, and a count that the available items do not exceed yields all of
\* them.
C10_Bounded ==
    InFeed =>
        /\ Len(requests) <= EndOfData
        /\ (pc = "returned" /\ AskedCount # None
                /\ AskedCount[1] >= Len(Available)) =>
              RawItems(ret) = Available

C10_Terminates ==
    /\ [](C10_Bounded)
    /\ (pc = "fetch") ~> (pc \in {"returned", "raised"})

C10_Witness ==
    /\ InFeed /\ pc = "returned"
    /\ AskedCount = Some(3)
    /\ Len(Available) = 2
    /\ Len(requests) = 2
    /\ RawItems(ret) = <<1, 2>>
====
